---- MODULE Spec2Model ----
(***************************************************************************)
(* Verification model of the book companion code "The Art of               *)
(* Reinforcement Learning":                                                *)
(*   - chapter_13/trackers.py : EpisodeTracker, StepRateTracker            *)
(*   - chapter_10/csv_writer.py : CsvWriter                                *)
(*   - chapter_14/envs/coords.py : CoordsConvertor                         *)
(*   - chapter_13/trackers.py : the tensorboard trackers, set_tracker_steps*)
(*   - chapter_9/actor_critic_atari.py : ActorCriticAgent, run_train_loop, *)
(*     run_evaluation_loop, main                                           *)
(* Each component has its own specification (SpecTracker, SpecCsv,         *)
(* SpecCoords, SpecTensorboard, SpecMain); the variables of the other      *)
(* components keep their initial values in it.                             *)
(***************************************************************************)
EXTENDS Integers, Sequences, FiniteSets, TLC

VARIABLES
    \* ---- chapter_13/trackers.py ----
    episode_tracker,    \* the EpisodeTracker object (its six fields)
    step_rate_tracker,  \* the StepRateTracker object (its two fields)
    timer,              \* the reading timeit.default_timer() gives now
    stats,              \* what the most recent call on the trackers returned
    calls,              \* history: the step calls made since the last reset
    \* ---- chapter_10/csv_writer.py ----
    dicts,              \* the caller's dict objects, by identity
    writer,             \* the CsvWriter object (_header_written, _fieldnames)
    writing,            \* the write call in progress, if any, and its file buffer
    file,               \* the rows of the file fname on disk
    first_keys,         \* history: the keys of the record of writer's first write call
    acked,              \* history: the rows of the write calls that returned
    counts,             \* history: the write calls completed (returned or raised) and
                        \* returned, whether this writer completed one (own), the
                        \* writers that did, whether a crash cut a write call
    \* ---- chapter_14/envs/coords.py ----
    board_size,         \* CoordsConvertor.board_size
    fn,                 \* the method called last; its argument and its result are
    call_flat,          \* the flattened coordinate,
    call_coord,         \* the Minigo coordinate,
    call_text,          \* the SGF or GTP string of the call,
    raised,             \* and whether the call raised
    \* ---- chapter_13/trackers.py, the tensorboard trackers ----
    tb_episode_tracker,     \* the TensorboardEpisodeTracker object
    tb_step_rate_tracker,   \* the TensorboardStepRateTracker object
    tb_writer,              \* the scalars the last step call gave the SummaryWriter,
                            \* and the exception it raised, if any
    tb_counts,              \* history: the step calls made since construction, and
                            \* on each tensorboard tracker since set_tracker_steps
    \* ---- chapter_9/actor_critic_atari.py ----
    flags,          \* FLAGS: the command line of the run
    main,           \* main: where it is, iteration, train_stats and eval_stats
    agent,          \* train_agent, the ActorCriticAgent (step_t, update_t, sequence)
    train_env,      \* the training environment: the episode it is in
    eval_env,       \* the evaluation environment
    loop,           \* run_train_loop: where it is, t, s_t, r_t, done, its trackers
    eval_loop,      \* run_evaluation_loop: steps made, s_t, its trackers
    disk,           \* the rows of the CSV file, the checkpoint files, the directory
    hist            \* history: the calls of agent.act, env.reset and env.step made

tracker_vars == <<episode_tracker, step_rate_tracker, timer, stats, calls>>
csv_vars == <<dicts, writer, writing, file, first_keys, acked, counts>>

coords_vars == <<board_size, fn, call_flat, call_coord, call_text, raised>>

tb_vars == <<tb_episode_tracker, tb_step_rate_tracker, tb_writer, tb_counts>>

driver_vars == <<flags, main, agent, train_env, eval_env, loop, eval_loop, disk, hist>>

not_tracker_vars == <<csv_vars, coords_vars, tb_vars, driver_vars>>
not_csv_vars == <<tracker_vars, coords_vars, tb_vars, driver_vars>>
not_coords_vars == <<tracker_vars, csv_vars, tb_vars, driver_vars>>
not_tb_vars == <<csv_vars, coords_vars, driver_vars>>
not_driver_vars == <<tracker_vars, csv_vars, coords_vars, tb_vars>>

vars == <<tracker_vars, csv_vars, coords_vars, tb_vars, driver_vars>>

(***************************************************************************)
(* Bounds of the model.                                                    *)
(***************************************************************************)
MaxSteps == 3       \* step calls between two resets
MaxTime == 1        \* largest timer reading
NumDicts == 2       \* dict objects the caller of CsvWriter holds
MaxCalls == 3       \* write calls completed on the file
MaxBoardSize == 3   \* board sizes 1..MaxBoardSize, besides the sizes of BoardSizes
MaxIterations == 2      \* --num_iterations is 0..MaxIterations
MaxTrainSteps == 2      \* --num_train_steps is -1..MaxTrainSteps
MaxEvalSteps == 1       \* --num_eval_steps is 0..MaxEvalSteps
MaxSequenceLength == 3  \* --sequence_length is 1..MaxSequenceLength
MaxEpisodeLen == 2      \* an episode of an environment ends within so many steps

(***************************************************************************)
(* Helpers: None, Python's sum(), and floats as exact fractions num/den.   *)
(***************************************************************************)
None == 0

RECURSIVE SumSeq(_)
SumSeq(s) == IF s = <<>> THEN 0 ELSE s[1] + SumSeq(Tail(s))

NaN == [nan |-> TRUE, num |-> 0, den |-> 1]
Num(n) == [nan |-> FALSE, num |-> n, den |-> 1]

\* n / d for d # 0
Div(n, d) == [nan |-> FALSE, num |-> n, den |-> d]

\* np.array(xs).mean(): NaN for an empty array, else sum / len
NpMean(xs) == IF Len(xs) = 0 THEN NaN ELSE Div(SumSeq(xs), Len(xs))

(***************************************************************************)
(* Inputs of step(reward, done, info).                                     *)
(***************************************************************************)
Rewards == {-1, 2}

\* info is None, a dict without the key, or a dict with the key
InfoNone == [is_none |-> TRUE, keys |-> {}, episode_visited_rooms |-> 0]
InfoOther == [is_none |-> FALSE, keys |-> {"lives"}, episode_visited_rooms |-> 0]
InfoRooms(n) ==
    [is_none |-> FALSE, keys |-> {"episode_visited_rooms"}, episode_visited_rooms |-> n]

Infos == {InfoNone, InfoOther, InfoRooms(3)}

is_dict(info) == ~info.is_none

(***************************************************************************)
(* class EpisodeTracker                                                    *)
(***************************************************************************)
\* EpisodeTracker(): every field is None until the first reset
EpisodeTracker_init ==
    [num_steps_since_reset |-> None,
     episode_returns |-> None,
     episode_steps |-> None,
     episode_visited_rooms |-> None,
     current_episode_step |-> None,
     current_episode_rewards |-> None]

\* reset with a slip: the step counter is not set back
EpisodeTracker_reset_keeps_num_steps(self) ==
    [num_steps_since_reset |-> self.num_steps_since_reset,
     episode_returns |-> <<>>,
     episode_steps |-> <<>>,
     episode_visited_rooms |-> <<>>,
     current_episode_step |-> 0,
     current_episode_rewards |-> <<>>]

EpisodeTracker_reset(self) ==
    [num_steps_since_reset |-> 0,
     episode_returns |-> <<>>,
     episode_steps |-> <<>>,
     episode_visited_rooms |-> <<>>,
     current_episode_step |-> 0,
     current_episode_rewards |-> <<>>]

\* step with a slip: the rewards of a completed episode are not cleared
EpisodeTracker_step_keeps_rewards(self, reward, done, info) ==
    LET rewards == Append(self.current_episode_rewards, reward)
    IN  [self EXCEPT !.current_episode_rewards = rewards,
                     !.num_steps_since_reset = @ + 1,
                     !.current_episode_step = IF done THEN 0 ELSE @ + 1,
                     !.episode_returns = IF done THEN Append(@, SumSeq(rewards)) ELSE @,
                     !.episode_steps =
                         IF done THEN Append(@, self.current_episode_step + 1) ELSE @]

\* step with a slip: current_episode_step is not set back on a done step
EpisodeTracker_step_keeps_count(self, reward, done, info) ==
    LET rewards == Append(self.current_episode_rewards, reward)
    IN  [self EXCEPT !.current_episode_rewards = IF done THEN <<>> ELSE rewards,
                     !.num_steps_since_reset = @ + 1,
                     !.current_episode_step = @ + 1,
                     !.episode_returns = IF done THEN Append(@, SumSeq(rewards)) ELSE @,
                     !.episode_steps =
                         IF done THEN Append(@, self.current_episode_step + 1) ELSE @]

\* step with a slip: the step count of a completed episode misses its last step
EpisodeTracker_step_count_before(self, reward, done, info) ==
    LET rewards == Append(self.current_episode_rewards, reward)
    IN  [self EXCEPT !.current_episode_rewards = IF done THEN <<>> ELSE rewards,
                     !.num_steps_since_reset = @ + 1,
                     !.current_episode_step = IF done THEN 0 ELSE @ + 1,
                     !.episode_returns = IF done THEN Append(@, SumSeq(rewards)) ELSE @,
                     !.episode_steps =
                         IF done THEN Append(@, self.current_episode_step) ELSE @]

EpisodeTracker_step(self, reward, done, info) ==
    LET rewards == Append(self.current_episode_rewards, reward)
        n == self.num_steps_since_reset + 1
        cur == self.current_episode_step + 1
    IN  IF done
        THEN [num_steps_since_reset |-> n,
              episode_visited_rooms |->
                  IF is_dict(info) /\ "episode_visited_rooms" \in info.keys
                  THEN Append(self.episode_visited_rooms, info.episode_visited_rooms)
                  ELSE self.episode_visited_rooms,
              episode_returns |-> Append(self.episode_returns, SumSeq(rewards)),
              episode_steps |-> Append(self.episode_steps, cur),
              current_episode_rewards |-> <<>>,
              current_episode_step |-> 0]
        ELSE [self EXCEPT !.current_episode_rewards = rewards,
                          !.num_steps_since_reset = n,
                          !.current_episode_step = cur]

\* get with a slip: the sum of the rewards in progress also when no step was taken
EpisodeTracker_get_no_nan(self) ==
    LET some == Len(self.episode_returns) > 0
    IN  [mean_episode_return |->
             IF some THEN NpMean(self.episode_returns)
             ELSE Num(SumSeq(self.current_episode_rewards)),
         mean_episode_visited_rooms |->
             IF some THEN NpMean(self.episode_visited_rooms) ELSE Num(0),
         num_episodes |-> Len(self.episode_returns),
         current_episode_step |-> self.current_episode_step,
         num_steps_since_reset |-> self.num_steps_since_reset]

EpisodeTracker_get(self) ==
    LET some == Len(self.episode_returns) > 0
        current_episode_return ==
            IF self.num_steps_since_reset > 0
            THEN Num(SumSeq(self.current_episode_rewards))
            ELSE NaN
    IN  [mean_episode_return |->
             IF some THEN NpMean(self.episode_returns) ELSE current_episode_return,
         mean_episode_visited_rooms |->
             IF some THEN NpMean(self.episode_visited_rooms) ELSE Num(0),
         num_episodes |-> Len(self.episode_returns),
         current_episode_step |-> self.current_episode_step,
         num_steps_since_reset |-> self.num_steps_since_reset]

(***************************************************************************)
(* class StepRateTracker                                                   *)
(***************************************************************************)
\* step with a slip: a done step is not counted
StepRateTracker_step_skips_done(self, reward, done, info) ==
    [self EXCEPT !.num_steps_since_reset = IF done THEN @ ELSE @ + 1]

StepRateTracker_step(self, reward, done, info) ==
    [self EXCEPT !.num_steps_since_reset = self.num_steps_since_reset + 1]

\* StepRateTracker(): both fields are None until the first reset
StepRateTracker_init == [num_steps_since_reset |-> None, start |-> None]

StepRateTracker_reset(self, now) ==
    [num_steps_since_reset |-> 0, start |-> now]

\* n / 0.0 raises ZeroDivisionError: the call returns no dictionary then
StepRateTracker_get(self, now) ==
    LET duration == now - self.start
    IN  IF self.num_steps_since_reset > 0 /\ duration = 0
        THEN [raised |-> TRUE, step_rate |-> NaN, num_steps |-> 0, duration |-> 0]
        ELSE [raised |-> FALSE,
              step_rate |-> IF self.num_steps_since_reset > 0
                            THEN Div(self.num_steps_since_reset, duration)
                            ELSE NaN,
              num_steps |-> self.num_steps_since_reset,
              duration |-> duration]

(***************************************************************************)
(* class CsvWriter, the dicts its caller passes to write, and the file.    *)
(* A dict is the sequence of its <<key, value>> items in insertion order;  *)
(* a value is modelled by the text the csv module writes for it.           *)
(***************************************************************************)
Keys == {"a", "b"}
Cells == {"1"}
DictIds == 1..NumDicts

DictKeys(d) == [i \in 1..Len(d) |-> d[i][1]]
KeySet(d) == {d[i][1] : i \in 1..Len(d)}

\* d.get(key, restval)
DictGet(d, key, restval) ==
    IF key \in KeySet(d)
    THEN LET i == CHOOSE j \in 1..Len(d) : d[j][1] = key IN d[i][2]
    ELSE restval

\* d[key] = value: a new key goes last, a known key keeps its place
DictSetItem(d, key, value) ==
    IF key \in KeySet(d)
    THEN [i \in 1..Len(d) |-> IF d[i][1] = key THEN <<key, value>> ELSE d[i]]
    ELSE Append(d, <<key, value>>)


\* values.keys() is a view of the dict object: the keys it has now
FieldNames(view) == IF view = None THEN <<>> ELSE DictKeys(dicts[view])

\* csv.DictWriter.writeheader(): the field names as a row
HeaderRow(fieldnames) == [header |-> TRUE, cells |-> fieldnames]

\* csv.DictWriter.writerow(values): the value of each field name, '' if missing
DataRow(fieldnames, values) ==
    [header |-> FALSE,
     cells |-> [i \in 1..Len(fieldnames) |-> DictGet(values, fieldnames[i], "")]]

\* the keys for which csv.DictWriter.writerow raises ValueError
WrongFields(fieldnames, values) ==
    KeySet(values) \ {fieldnames[i] : i \in 1..Len(fieldnames)}

NotWriting == [active |-> FALSE, buffer |-> <<>>]

\* CsvWriter.__init__(fname); the directory of fname exists afterwards
CsvWriter_init == [header_written |-> FALSE, fieldnames |-> None]

\* write with a slip: _header_written is not set
CsvWriter_write_fields_no_flag(self, id) ==
    [header_written |-> self.header_written,
     fieldnames |-> IF self.fieldnames = None THEN id ELSE self.fieldnames]

\* The fields of the writer after lines 29-40 of write(values)
CsvWriter_write_fields(self, id) ==
    [header_written |-> TRUE,
     fieldnames |-> IF self.fieldnames = None THEN id ELSE self.fieldnames]

\* What write(values) puts into the buffer of the file it opened: the header
\* if none was written by this writer, and the row
CsvWriter_write_header(self, fieldnames) ==
    IF ~self.header_written THEN <<HeaderRow(fieldnames)>> ELSE <<>>

\* open(fname, 'w'): the file is emptied
OpenTruncate(content) == <<>>

\* open(fname, 'a'): the content the file object starts from
OpenAppend(content) == content

CsvIdle ==
    /\ dicts = [id \in DictIds |-> <<>>]
    /\ writer = CsvWriter_init
    /\ writing = NotWriting
    /\ file = <<>>
    /\ first_keys = <<>>
    /\ acked = <<>>
    /\ counts = [completed |-> 0, returned |-> 0, own |-> 0, writers |-> 0, cut |-> FALSE]

\* the caller: dicts[id][key] = value
SetItem(id, key, value) ==
    /\ ~writing.active
    /\ dicts' = [dicts EXCEPT ![id] = DictSetItem(dicts[id], key, value)]
    /\ dicts' # dicts
    /\ UNCHANGED <<writer, writing, file, first_keys, acked, counts, not_csv_vars>>

\* write(dicts[id]) up to and including writer.writerow, when it does not raise
WriteRow(id) ==
    LET self == CsvWriter_write_fields(writer, id)
        fieldnames == FieldNames(self.fieldnames)
        header == CsvWriter_write_header(writer, fieldnames)
    IN  /\ ~writing.active
        /\ dicts[id] # <<>>
        /\ counts.completed < MaxCalls
        /\ WrongFields(fieldnames, dicts[id]) = {}
        /\ writer' = self
        /\ file' = OpenAppend(file)
        /\ writing' = [active |-> TRUE,
                       buffer |-> Append(header, DataRow(fieldnames, dicts[id]))]
        /\ first_keys' = IF writer.fieldnames = None THEN DictKeys(dicts[id])
                         ELSE first_keys
        /\ UNCHANGED <<dicts, acked, counts, not_csv_vars>>

\* write(dicts[id]) when writer.writerow raises ValueError: the with statement
\* closes the file, which flushes a header written before, and write raises
WriteRaises(id) ==
    LET self == CsvWriter_write_fields(writer, id)
        fieldnames == FieldNames(self.fieldnames)
        header == CsvWriter_write_header(writer, fieldnames)
    IN  /\ ~writing.active
        /\ dicts[id] # <<>>
        /\ counts.completed < MaxCalls
        /\ WrongFields(fieldnames, dicts[id]) # {}
        /\ writer' = self
        /\ file' = OpenAppend(file) \o header
        /\ first_keys' = IF writer.fieldnames = None THEN DictKeys(dicts[id])
                         ELSE first_keys
        /\ counts' = [counts EXCEPT !.completed = @ + 1,
                                    !.own = 1,
                                    !.writers = @ + (1 - counts.own)]
        /\ UNCHANGED <<dicts, writing, acked, not_csv_vars>>

\* the end of the with statement: the file is closed, which flushes the
\* buffer to the file, and write returns
WriteReturns ==
    /\ writing.active
    /\ file' = file \o writing.buffer
    /\ writing' = NotWriting
    /\ acked' = Append(acked, writing.buffer[Len(writing.buffer)].cells)
    /\ counts' = [counts EXCEPT !.completed = @ + 1,
                                !.returned = @ + 1,
                                !.own = 1,
                                !.writers = @ + (1 - counts.own)]
    /\ UNCHANGED <<dicts, writer, first_keys, not_csv_vars>>

\* The run ends or crashes, at any point, and the program is started again:
\* what was buffered is lost with the process, the file stays, and a new
\* CsvWriter(fname) is created for the same file
Restart ==
    /\ dicts' = [id \in DictIds |-> <<>>]
    /\ writer' = CsvWriter_init
    /\ writing' = NotWriting
    /\ first_keys' = <<>>
    /\ counts' = [counts EXCEPT !.own = 0, !.cut = @ \/ writing.active]
    /\ UNCHANGED <<file, acked, not_csv_vars>>

CsvNext ==
    \/ \E id \in DictIds, key \in Keys, value \in Cells : SetItem(id, key, value)
    \/ \E id \in DictIds : WriteRow(id)
    \/ \E id \in DictIds : WriteRaises(id)
    \/ WriteReturns
    \/ Restart


(***************************************************************************)
(* The tracker list [EpisodeTracker(), StepRateTracker()] and the calls    *)
(* made on it.                                                             *)
(***************************************************************************)
NoStats ==
    [returned |-> FALSE,
     episode |-> [mean_episode_return |-> NaN, mean_episode_visited_rooms |-> NaN,
                  num_episodes |-> 0, current_episode_step |-> 0,
                  num_steps_since_reset |-> 0],
     rate |-> [raised |-> FALSE, step_rate |-> NaN, num_steps |-> 0, duration |-> 0]]

\* make_default_trackers(): the two trackers, reset
make_default_trackers ==
    /\ timer \in 0..MaxTime
    /\ episode_tracker = EpisodeTracker_reset(EpisodeTracker_init)
    /\ step_rate_tracker = StepRateTracker_reset(StepRateTracker_init, timer)
    /\ stats = NoStats
    /\ calls = <<>>

\* for tracker in trackers: tracker.step(reward, done, info)
Step(reward, done, info) ==
    /\ Len(calls) < MaxSteps
    /\ episode_tracker' = EpisodeTracker_step(episode_tracker, reward, done, info)
    /\ step_rate_tracker' = StepRateTracker_step(step_rate_tracker, reward, done, info)
    /\ stats' = NoStats
    /\ calls' = Append(calls, [reward |-> reward, done |-> done, info |-> info])
    /\ UNCHANGED <<timer, not_tracker_vars>>

StepAny == \E reward \in Rewards, done \in BOOLEAN, info \in Infos : Step(reward, done, info)

\* reset_trackers(trackers)
Reset ==
    /\ episode_tracker' = EpisodeTracker_reset(episode_tracker)
    /\ step_rate_tracker' = StepRateTracker_reset(step_rate_tracker, timer)
    /\ stats' = NoStats
    /\ calls' = <<>>
    /\ UNCHANGED <<timer, not_tracker_vars>>

\* tracker.get() for tracker in trackers
Get ==
    /\ stats' = [returned |-> TRUE,
                 episode |-> EpisodeTracker_get(episode_tracker),
                 rate |-> StepRateTracker_get(step_rate_tracker, timer)]
    /\ UNCHANGED <<episode_tracker, step_rate_tracker, timer, calls, not_tracker_vars>>

\* time passes: the timer is monotonic
Tick ==
    /\ timer < MaxTime
    /\ timer' = timer + 1
    /\ UNCHANGED <<episode_tracker, step_rate_tracker, stats, calls, not_tracker_vars>>

TrackerNext == StepAny \/ Reset \/ Get \/ Tick

(***************************************************************************)
(* class TensorboardEpisodeTracker(EpisodeTracker) and                     *)
(* class TensorboardStepRateTracker(StepRateTracker): base holds the       *)
(* fields of the base class.  A step returns the new object, the scalars   *)
(* handed to the SummaryWriter and whether it raised.                      *)
(***************************************************************************)
\* the object has no attribute of that name
NoAttr == -1

Scalar(tag, value, global_step) == [tag |-> tag, value |-> value, step |-> global_step]

TensorboardEpisodeTracker_init ==
    [base |-> EpisodeTracker_init, total_steps |-> 0, total_episodes |-> 0]

\* reset is inherited from EpisodeTracker; with a slip: it clears the totals too
TensorboardEpisodeTracker_reset_clears_totals(self) ==
    [base |-> EpisodeTracker_reset(self.base), total_steps |-> 0, total_episodes |-> 0]

\* reset is inherited from EpisodeTracker
TensorboardEpisodeTracker_reset(self) ==
    [self EXCEPT !.base = EpisodeTracker_reset(self.base)]

\* _episode_visited_rooms[-1] raises IndexError when no done step since the
\* reset had 'episode_visited_rooms' in its info
TensorboardEpisodeTracker_step(self, reward, done, info) ==
    LET base == EpisodeTracker_step(self.base, reward, done, info)
        total_steps == self.total_steps + 1
        total_episodes == self.total_episodes + 1
        last(xs) == xs[Len(xs)]
    IN  IF ~done
        THEN [self |-> [base |-> base, total_steps |-> total_steps,
                        total_episodes |-> self.total_episodes],
              raised |-> FALSE, scalars |-> <<>>]
        ELSE [self |-> [base |-> base, total_steps |-> total_steps,
                        total_episodes |-> total_episodes],
              raised |-> base.episode_visited_rooms = <<>>,
              scalars |->
                  IF base.episode_visited_rooms = <<>> THEN <<>>
                  ELSE << Scalar("num_episodes", Num(total_episodes), total_steps),
                          Scalar("episode_return", Num(last(base.episode_returns)),
                                 total_steps),
                          Scalar("episode_steps", Num(last(base.episode_steps)),
                                 total_steps),
                          Scalar("episode_visited_rooms",
                                 Num(last(base.episode_visited_rooms)), total_steps) >>]

\* no _total_episodes attribute until set_tracker_steps makes one
TensorboardStepRateTracker_init ==
    [base |-> StepRateTracker_init, total_steps |-> 0, total_episodes |-> NoAttr]

\* reset is inherited from StepRateTracker
TensorboardStepRateTracker_reset(self, now) ==
    [self EXCEPT !.base = StepRateTracker_reset(self.base, now)]

\* self.get() raises ZeroDivisionError when no time has passed since the reset
TensorboardStepRateTracker_step(self, reward, done, info, now) ==
    LET base == StepRateTracker_step(self.base, reward, done, info)
        total_steps == self.total_steps + 1
        time_stats == StepRateTracker_get(base, now)
    IN  [self |-> [self EXCEPT !.base = base, !.total_steps = total_steps],
         raised |-> done /\ time_stats.raised,
         scalars |-> IF done /\ ~time_stats.raised
                     THEN << Scalar("step_rate", time_stats.step_rate, total_steps) >>
                     ELSE <<>>]

\* set_tracker_steps, on one tensorboard tracker
Tensorboard_set_steps(self, num_steps, num_episodes) ==
    [self EXCEPT !.total_steps = num_steps, !.total_episodes = num_episodes]

(***************************************************************************)
(* The tracker list of make_default_trackers(log_dir): the two trackers    *)
(* above, then the two tensorboard trackers.                               *)
(***************************************************************************)
MaxTotal == 4       \* step calls made on the list since its construction

\* values handed to set_tracker_steps(trackers, num_steps, num_episodes)
SetSteps == {5}
SetEpisodes == {0, 3}

\* rewards handed to step on the list with the tensorboard trackers
TbRewards == {2}

NoScalars == [raised |-> FALSE, scalars |-> <<>>]

NoCounts ==
    [made |-> 0, episode_steps |-> 0, episode_dones |-> 0, rate_steps |-> 0,
     set_steps |-> 0, set_episodes |-> 0, set |-> FALSE]

\* make_default_trackers(log_dir): the two tensorboard trackers, reset
make_tensorboard_trackers ==
    /\ tb_episode_tracker = TensorboardEpisodeTracker_reset(TensorboardEpisodeTracker_init)
    /\ tb_step_rate_tracker =
           TensorboardStepRateTracker_reset(TensorboardStepRateTracker_init, timer)
    /\ tb_writer = NoScalars
    /\ tb_counts = NoCounts

\* for tracker in trackers: tracker.step(reward, done, info); an exception of
\* the third tracker leaves the fourth without its step
TbStep(reward, done, info) ==
    LET e == TensorboardEpisodeTracker_step(tb_episode_tracker, reward, done, info)
        r == TensorboardStepRateTracker_step(tb_step_rate_tracker, reward, done, info,
                                             timer)
    IN  /\ Len(calls) < MaxSteps
        /\ tb_counts.made < MaxTotal
        /\ episode_tracker' = EpisodeTracker_step(episode_tracker, reward, done, info)
        /\ step_rate_tracker' = StepRateTracker_step(step_rate_tracker, reward, done, info)
        /\ tb_episode_tracker' = e.self
        /\ tb_step_rate_tracker' = IF e.raised THEN tb_step_rate_tracker ELSE r.self
        /\ tb_writer' = IF e.raised THEN [raised |-> TRUE, scalars |-> <<>>]
                        ELSE [raised |-> r.raised, scalars |-> e.scalars \o r.scalars]
        /\ tb_counts' =
               [tb_counts EXCEPT !.made = @ + 1,
                                 !.episode_steps = @ + 1,
                                 !.episode_dones = IF done THEN @ + 1 ELSE @,
                                 !.rate_steps = IF e.raised THEN @ ELSE @ + 1]
        /\ stats' = NoStats
        /\ calls' = Append(calls, [reward |-> reward, done |-> done, info |-> info])
        /\ UNCHANGED <<timer, not_tb_vars>>

TbStepAny ==
    \E reward \in TbRewards, done \in BOOLEAN, info \in Infos : TbStep(reward, done, info)

\* reset_trackers(trackers)
TbReset ==
    /\ episode_tracker' = EpisodeTracker_reset(episode_tracker)
    /\ step_rate_tracker' = StepRateTracker_reset(step_rate_tracker, timer)
    /\ tb_episode_tracker' = TensorboardEpisodeTracker_reset(tb_episode_tracker)
    /\ tb_step_rate_tracker' = TensorboardStepRateTracker_reset(tb_step_rate_tracker, timer)
    /\ tb_writer' = NoScalars
    /\ stats' = NoStats
    /\ calls' = <<>>
    /\ UNCHANGED <<timer, tb_counts, not_tb_vars>>

\* set_tracker_steps(trackers, num_steps, num_episodes)
SetTrackerSteps(num_steps, num_episodes) ==
    /\ tb_episode_tracker' =
           Tensorboard_set_steps(tb_episode_tracker, num_steps, num_episodes)
    /\ tb_step_rate_tracker' =
           Tensorboard_set_steps(tb_step_rate_tracker, num_steps, num_episodes)
    /\ tb_counts' = [tb_counts EXCEPT !.episode_steps = 0, !.episode_dones = 0,
                                      !.rate_steps = 0, !.set_steps = num_steps,
                                      !.set_episodes = num_episodes, !.set = TRUE]
    /\ tb_writer' = NoScalars
    /\ stats' = NoStats
    /\ UNCHANGED <<episode_tracker, step_rate_tracker, timer, calls, not_tb_vars>>

SetTrackerStepsAny ==
    \E num_steps \in SetSteps, num_episodes \in SetEpisodes :
        SetTrackerSteps(num_steps, num_episodes)

TbNext == TbStepAny \/ TbReset \/ SetTrackerStepsAny \/ Get \/ Tick

(***************************************************************************)
(* class CoordsConvertor.  A string is the sequence of its characters; a   *)
(* Minigo coordinate is <<row, col>>, and None (the pass move) is Pass.    *)
(* A method that can raise returns [raised, val], val being its value when *)
(* it did not raise.                                                       *)
(***************************************************************************)
SGF_COLUMNS ==
    <<"a", "b", "c", "d", "e", "f", "g", "h", "i", "j", "k", "l", "m",
      "n", "o", "p", "q", "r", "s", "t", "u", "v", "w", "x", "y", "z",
      "A", "B", "C", "D", "E", "F", "G", "H", "I", "J", "K", "L", "M",
      "N", "O", "P", "Q", "R", "S", "T", "U", "V", "W", "X", "Y", "Z">>

\* the capital letters with I left in
GTP_COLUMNS_with_I ==
    <<"A", "B", "C", "D", "E", "F", "G", "H", "I", "J", "K", "L", "M",
      "N", "O", "P", "Q", "R", "S", "T", "U", "V", "W", "X", "Y", "Z">>

GTP_COLUMNS ==
    <<"A", "B", "C", "D", "E", "F", "G", "H", "J", "K", "L", "M", "N",
      "O", "P", "Q", "R", "S", "T", "U", "V", "W", "X", "Y", "Z">>

Pass == <<>>

Returns(v) == [raised |-> FALSE, val |-> v]
Raises == [raised |-> TRUE, val |-> <<>>]

\* s[i] of Python for a string s: the index counts from 0, a negative one from
\* the end; -1 here when Python raises IndexError
PyItem(s, i) ==
    IF 0 <= i /\ i < Len(s) THEN s[i + 1]
    ELSE IF -Len(s) <= i /\ i < 0 THEN s[Len(s) + i + 1]
    ELSE ""

\* s.index(ch) for one character ch: -1 here when Python raises ValueError
PyIndex(s, ch) ==
    IF \E i \in 1..Len(s) : s[i] = ch
    THEN (CHOOSE i \in 1..Len(s) : s[i] = ch /\ \A j \in 1..(i - 1) : s[j] # ch) - 1
    ELSE -1

LowerCase ==
    <<"a", "b", "c", "d", "e", "f", "g", "h", "i", "j", "k", "l", "m",
      "n", "o", "p", "q", "r", "s", "t", "u", "v", "w", "x", "y", "z">>

UpperCase ==
    <<"A", "B", "C", "D", "E", "F", "G", "H", "I", "J", "K", "L", "M",
      "N", "O", "P", "Q", "R", "S", "T", "U", "V", "W", "X", "Y", "Z">>

\* str.upper(), for ASCII letters and digits
PyUpper(s) ==
    [i \in 1..Len(s) |->
        IF PyIndex(LowerCase, s[i]) >= 0 THEN UpperCase[PyIndex(LowerCase, s[i]) + 1]
        ELSE s[i]]

Digits == <<"0", "1", "2", "3", "4", "5", "6", "7", "8", "9">>

RECURSIVE PyStr(_)
\* str(n) of an integer n
PyStr(n) ==
    IF n < 0 THEN <<"-">> \o PyStr(-n)
    ELSE IF n < 10 THEN <<Digits[n + 1]>>
    ELSE PyStr(n \div 10) \o <<Digits[(n % 10) + 1]>>

IsDigits(s) == Len(s) > 0 /\ \A i \in 1..Len(s) : PyIndex(Digits, s[i]) >= 0

RECURSIVE PyInt(_)
\* int(s) of a string of decimal digits (leading zeros allowed)
PyInt(s) ==
    IF Len(s) = 0 THEN 0
    ELSE 10 * PyInt(SubSeq(s, 1, Len(s) - 1)) + PyIndex(Digits, s[Len(s)])

\* from_flat with a slip: no case for the pass move
from_flat_no_pass(N, flat) == <<flat \div N, flat % N>>

from_flat(N, flat) ==
    IF flat = N * N THEN Pass ELSE <<flat \div N, flat % N>>

to_flat(N, coord) ==
    IF coord = Pass THEN N * N ELSE N * coord[1] + coord[2]

from_sgf(N, sgfc) ==
    IF sgfc = <<>> \/ (N <= 19 /\ sgfc = <<"t", "t">>) THEN Returns(Pass)
    ELSE IF Len(sgfc) < 2 THEN Raises
    ELSE IF PyIndex(SGF_COLUMNS, sgfc[2]) < 0 \/ PyIndex(SGF_COLUMNS, sgfc[1]) < 0
         THEN Raises
    ELSE Returns(<<PyIndex(SGF_COLUMNS, sgfc[2]), PyIndex(SGF_COLUMNS, sgfc[1])>>)

to_sgf(N, coord) ==
    IF coord = Pass THEN Returns(<<>>)
    ELSE IF PyItem(SGF_COLUMNS, coord[2]) = "" \/ PyItem(SGF_COLUMNS, coord[1]) = ""
         THEN Raises
    ELSE Returns(<<PyItem(SGF_COLUMNS, coord[2]), PyItem(SGF_COLUMNS, coord[1])>>)

\* from_gtp with a slip: the row counted from the top
from_gtp_from_top(N, gtpc0) ==
    LET gtpc == PyUpper(gtpc0)
    IN  IF gtpc = <<"P", "A", "S", "S">> THEN Returns(Pass)
        ELSE IF Len(gtpc) = 0 THEN Raises
        ELSE IF PyIndex(GTP_COLUMNS, gtpc[1]) < 0 THEN Raises
        ELSE IF ~IsDigits(Tail(gtpc)) THEN Raises
        ELSE Returns(<<PyInt(Tail(gtpc)) - 1, PyIndex(GTP_COLUMNS, gtpc[1])>>)

from_gtp(N, gtpc0) ==
    LET gtpc == PyUpper(gtpc0)
    IN  IF gtpc = <<"P", "A", "S", "S">> THEN Returns(Pass)
        ELSE IF Len(gtpc) = 0 THEN Raises
        ELSE IF PyIndex(GTP_COLUMNS, gtpc[1]) < 0 THEN Raises
        ELSE IF ~IsDigits(Tail(gtpc)) THEN Raises
        ELSE Returns(<<N - PyInt(Tail(gtpc)), PyIndex(GTP_COLUMNS, gtpc[1])>>)

to_gtp(N, coord) ==
    IF coord = Pass THEN Returns(<<"p", "a", "s", "s">>)
    ELSE LET y == coord[1]
             x == coord[2]
         IN  IF PyItem(GTP_COLUMNS, x) = "" THEN Raises
             ELSE Returns(<<PyItem(GTP_COLUMNS, x)>> \o PyStr(N - y))

(***************************************************************************)
(* The inputs the methods of a CoordsConvertor(N) are called with.         *)
(***************************************************************************)
BoardSizes == (1..MaxBoardSize) \cup {9, 19, 20, 25, 26, 52, 53}

OnBoard(N) == {<<row, col>> : row \in 0..(N - 1), col \in 0..(N - 1)}
Coordinates(N) == OnBoard(N) \cup {Pass}
Flats(N) == 0..(N * N)

Min(a, b) == IF a < b THEN a ELSE b
Max(a, b) == IF a > b THEN a ELSE b

\* '', and the two-letter strings over the first max(N, 20) SGF letters
SgfStrings(N) ==
    LET letters == {SGF_COLUMNS[i] : i \in 1..Min(Max(N, 20), Len(SGF_COLUMNS))}
    IN  {<<>>} \cup {<<a, b>> : a \in letters, b \in letters}

\* 'pass' in three spellings, and a letter (a column letter of either case,
\* or I) followed by a number 0..N+1, or by 01..09
GtpStrings(N) ==
    LET upper == {UpperCase[i] : i \in 1..Min(N + 1, Len(UpperCase))}
        lower == {LowerCase[i] : i \in 1..Min(N + 1, Len(LowerCase))}
        numbers == {PyStr(k) : k \in 0..(N + 1)} \cup {<<"0">> \o PyStr(k) : k \in 1..Min(N, 9)}
    IN  {<<"p", "a", "s", "s">>, <<"P", "A", "S", "S">>, <<"P", "a", "s", "s">>}
        \cup {<<l>> \o n : l \in upper \cup lower, n \in numbers}

NoCall == fn = "none" /\ call_flat = 0 /\ call_coord = Pass /\ call_text = <<>> /\ raised = FALSE

CoordsIdle == board_size = 1 /\ NoCall

\* CoordsConvertor(board_size)
CoordsConvertor_init == board_size \in BoardSizes /\ NoCall

\* one call: the method, and the flattened coordinate, the coordinate and the
\* string that are its argument and its result
Called(name, f, c, t, r) ==
    /\ fn' = name
    /\ call_flat' = f
    /\ call_coord' = c
    /\ call_text' = t
    /\ raised' = r
    /\ UNCHANGED <<board_size, not_coords_vars>>

Call_from_flat ==
    /\ fn = "none"
    /\ \E x \in Flats(board_size) :
           Called("from_flat", x, from_flat(board_size, x), <<>>, FALSE)

Call_to_flat ==
    /\ fn = "none"
    /\ \E c \in Coordinates(board_size) :
           Called("to_flat", to_flat(board_size, c), c, <<>>, FALSE)

Call_from_sgf ==
    /\ fn = "none"
    /\ \E sgfc \in SgfStrings(board_size) :
           LET r == from_sgf(board_size, sgfc)
           IN  Called("from_sgf", 0, r.val, sgfc, r.raised)

Call_to_sgf ==
    /\ fn = "none"
    /\ \E c \in Coordinates(board_size) :
           LET r == to_sgf(board_size, c)
           IN  Called("to_sgf", 0, c, r.val, r.raised)

Call_from_gtp ==
    /\ fn = "none"
    /\ \E gtpc \in GtpStrings(board_size) :
           LET r == from_gtp(board_size, gtpc)
           IN  Called("from_gtp", 0, r.val, gtpc, r.raised)

Call_to_gtp ==
    /\ fn = "none"
    /\ \E c \in Coordinates(board_size) :
           LET r == to_gtp(board_size, c)
           IN  Called("to_gtp", 0, c, r.val, r.raised)

\* the caller has taken the result; the convertor can be called again
Return ==
    /\ fn # "none"
    /\ Called("none", 0, Pass, <<>>, FALSE)

CoordsNext ==
    \/ Return
    \/ Call_from_flat
    \/ Call_to_flat
    \/ Call_from_sgf
    \/ Call_to_sgf
    \/ Call_from_gtp
    \/ Call_to_gtp

(***************************************************************************)
(* chapter_9/actor_critic_atari.py: the ActorCriticAgent, run_train_loop,  *)
(* run_evaluation_loop and the iterations of main.  An observation is the  *)
(* number of steps made in the episode when the environment gave it (0 for *)
(* the observation of env.reset).  The trackers and the CsvWriter that     *)
(* chapter 9 imports are modelled by what they count and write.            *)
(***************************************************************************)
\* what env.step returns, what agent.act is given, an entry of agent.sequence
Transition(observation, reward, done) ==
    [observation |-> observation, reward |-> reward, done |-> done]

NoTransition == Transition(0, 0, FALSE)

ActorCriticAgent_init(sequence_length) ==
    [sequence_length |-> sequence_length, sequence |-> <<>>, step_t |-> -1, update_t |-> 0]

\* update(): get_transitions_from_sequence pairs every entry with its successor,
\* and compute_returns_and_advantages raises ValueError (np.stack of an empty
\* list) for a sequence of one entry, before update_t is counted
ActorCriticAgent_update(self) ==
    IF Len(self.sequence) < 2
    THEN [self |-> self, raised |-> TRUE]
    ELSE [self |-> [self EXCEPT !.update_t = @ + 1], raised |-> FALSE]

ActorCriticAgent_act(self, observation, reward, done) ==
    LET stepped ==
            [self EXCEPT !.step_t = @ + 1,
                         !.sequence = Append(@, Transition(observation, reward, done))]
        updated == ActorCriticAgent_update(stepped)
    IN  IF Len(stepped.sequence) >= self.sequence_length
        THEN IF updated.raised
             THEN [self |-> updated.self, raised |-> TRUE]
             ELSE [self |-> [updated.self EXCEPT !.sequence = <<>>], raised |-> FALSE]
        ELSE [self |-> stepped, raised |-> FALSE]

\* the environment: env.reset() starts an episode, env.step(a_t) makes a step of
\* it and returns a reward, done and info; an episode ends within MaxEpisodeLen steps
Env_init == [steps |-> 0]

Env_reset(env) == [steps |-> 0]

EnvInfos ==
    {[keys |-> {}, raw_reward |-> 0], [keys |-> {"raw_reward"}, raw_reward |-> 5]}

EnvOutcomes(env) ==
    {o \in [reward : {1}, done : BOOLEAN, info : EnvInfos] :
         (env.steps + 1 >= MaxEpisodeLen) => o.done}

Env_step(env) == [steps |-> env.steps + 1]

\* raw_reward = info['raw_reward'] when there is one, else r_t
run_train_loop_raw_reward(r_t, info) ==
    IF "raw_reward" \in info.keys THEN info.raw_reward ELSE r_t

\* the tracker list of chapter 9, by its counts of steps and of episodes
Trackers_init == [num_steps |-> 0, num_episodes |-> 0]

Trackers_step(self, reward, done) ==
    [num_steps |-> self.num_steps + 1,
     num_episodes |-> IF done THEN self.num_episodes + 1 ELSE self.num_episodes]

generate_statistics(trackers) == trackers

\* while t < num_train_steps; with a slip: while t <= num_train_steps
run_train_loop_continues_once_more(t, num_train_steps) == t <= num_train_steps

\* while t < num_train_steps
run_train_loop_continues(t, num_train_steps) == t < num_train_steps

\* if done with a slip: break without the final agent.act
run_train_loop_after_step_no_final(done) == IF done THEN "while" ELSE "act"

\* if done: the final agent.act and break; else the next agent.act
run_train_loop_after_step(done) == IF done THEN "final" ELSE "act"

\* the condition of the checkpoint with a slip: the directory is not looked for
main_creates_checkpoint_unchecked(checkpoint_dir, dir_exists) == checkpoint_dir # ""

\* if FLAGS.checkpoint_dir and os.path.exists(FLAGS.checkpoint_dir)
main_creates_checkpoint(checkpoint_dir, dir_exists) == checkpoint_dir # "" /\ dir_exists

\* writer.write(row): the header before the first row, then the row
CsvFile_write(d, row) == [d EXCEPT !.header = TRUE, !.rows = Append(@, row)]

FlagValues ==
    [num_iterations : 0..MaxIterations,
     num_train_steps : -1..MaxTrainSteps,
     num_eval_steps : 0..MaxEvalSteps,
     sequence_length : 1..MaxSequenceLength,
     results_csv_path : {"", "results.csv"},
     checkpoint_dir : {"", "checkpoints"}]

LoopIdle ==
    [pc |-> "idle", t |-> 0, s_t |-> 0, r_t |-> 0, done |-> FALSE,
     trackers |-> Trackers_init]

EvalIdle == [i |-> 0, s_t |-> 0, trackers |-> Trackers_init]

NoHist ==
    [acts |-> 0, run_acts |-> 0, run_steps |-> 0, run_episodes |-> 0,
     run_resets |-> 0, last_act |-> NoTransition, last_step |-> NoTransition,
     boundaries |-> <<>>, trains_started |-> 0, trains_done |-> 0,
     evals_started |-> 0, evals_done |-> 0, rows_written |-> 0]

\* main, up to the loop over the iterations
main_init ==
    /\ flags \in FlagValues
    /\ main = [pc |-> "for", iteration |-> 0, train_stats |-> Trackers_init,
               eval_stats |-> Trackers_init]
    /\ agent = ActorCriticAgent_init(flags.sequence_length)
    /\ train_env = Env_init
    /\ eval_env = Env_init
    /\ loop = LoopIdle
    /\ eval_loop = EvalIdle
    /\ disk \in [header : {FALSE}, rows : {<<>>}, checkpoints : {{}},
                 dir_exists : BOOLEAN]
    /\ disk.dir_exists => flags.checkpoint_dir # ""
    /\ hist = NoHist

DriverIdle ==
    /\ main_init
    /\ flags = [num_iterations |-> 0, num_train_steps |-> 0, num_eval_steps |-> 0,
                sequence_length |-> 1, results_csv_path |-> "", checkpoint_dir |-> ""]
    /\ ~disk.dir_exists

\* for iteration in range(1, num_iterations + 1): run_train_loop is entered
\* (its trackers, t = 0); after the last iteration writer.close() and the end
Main_for ==
    /\ main.pc = "for"
    /\ IF main.iteration < flags.num_iterations
       THEN /\ main' = [main EXCEPT !.pc = "train", !.iteration = @ + 1]
            /\ loop' = [LoopIdle EXCEPT !.pc = "while"]
            /\ hist' = [hist EXCEPT !.trains_started = @ + 1]
       ELSE /\ main' = [main EXCEPT !.pc = "done"]
            /\ UNCHANGED <<loop, hist>>
    /\ UNCHANGED <<flags, agent, train_env, eval_env, eval_loop, disk, not_driver_vars>>

\* while t < num_train_steps: s_t = env.reset(); r_t = 0; done = False
Train_reset ==
    /\ main.pc = "train" /\ loop.pc = "while"
    /\ run_train_loop_continues(loop.t, flags.num_train_steps)
    /\ train_env' = Env_reset(train_env)
    /\ loop' = [loop EXCEPT !.pc = "act", !.s_t = 0, !.r_t = 0, !.done = FALSE]
    /\ hist' = [hist EXCEPT !.run_resets = @ + 1]
    /\ UNCHANGED <<flags, main, agent, eval_env, eval_loop, disk, not_driver_vars>>

\* the while condition fails: return generate_statistics(trackers)
Train_return ==
    /\ main.pc = "train" /\ loop.pc = "while"
    /\ ~run_train_loop_continues(loop.t, flags.num_train_steps)
    /\ loop' = [loop EXCEPT !.pc = "returned"]
    /\ main' = [main EXCEPT !.train_stats = generate_statistics(loop.trackers)]
    /\ hist' = [hist EXCEPT !.trains_done = @ + 1]
    /\ UNCHANGED <<flags, agent, train_env, eval_env, eval_loop, disk, not_driver_vars>>

\* agent.act(s_t, r_t, done), at the place pc, going on at the place next; an
\* exception of update ends main
TrainAct(pc, next) ==
    LET a == ActorCriticAgent_act(agent, loop.s_t, loop.r_t, loop.done)
    IN  /\ main.pc = "train" /\ loop.pc = pc
        /\ agent' = a.self
        /\ loop' = [loop EXCEPT !.pc = IF a.raised THEN "raised" ELSE next]
        /\ main' = [main EXCEPT !.pc = IF a.raised THEN "raised" ELSE @]
        /\ hist' = [hist EXCEPT !.acts = @ + 1, !.run_acts = @ + 1,
                                !.last_act = Transition(loop.s_t, loop.r_t, loop.done)]
        /\ UNCHANGED <<flags, train_env, eval_env, eval_loop, disk, not_driver_vars>>

\* a_t = agent.act(s_t, r_t, done)
Train_act == TrainAct("act", "step")

\* s_t, r_t, done, info = env.step(a_t); t += 1; the trackers; if done
Train_step ==
    /\ main.pc = "train" /\ loop.pc = "step"
    /\ \E o \in EnvOutcomes(train_env) :
           LET env == Env_step(train_env)
               raw_reward == run_train_loop_raw_reward(o.reward, o.info)
           IN  /\ train_env' = env
               /\ loop' = [pc |-> run_train_loop_after_step(o.done),
                           t |-> loop.t + 1,
                           s_t |-> env.steps,
                           r_t |-> o.reward,
                           done |-> o.done,
                           trackers |-> Trackers_step(loop.trackers, raw_reward, o.done)]
               /\ hist' = [hist EXCEPT
                               !.run_steps = @ + 1,
                               !.run_episodes = IF o.done THEN @ + 1 ELSE @,
                               !.last_step = Transition(env.steps, o.reward, o.done),
                               !.boundaries = IF o.done THEN Append(@, loop.t + 1) ELSE @]
    /\ UNCHANGED <<flags, main, agent, eval_env, eval_loop, disk, not_driver_vars>>

\* unsued_a_t = agent.act(s_t, r_t, done); break
Train_final_act == TrainAct("final", "while")

\* run_train_loop is over and run_evaluation_loop is entered: its trackers,
\* s_t = env.reset()
Eval_start ==
    /\ main.pc = "train" /\ loop.pc = "returned"
    /\ main' = [main EXCEPT !.pc = "eval"]
    /\ loop' = LoopIdle
    /\ eval_env' = Env_reset(eval_env)
    /\ eval_loop' = EvalIdle
    /\ hist' = [hist EXCEPT !.evals_started = @ + 1, !.run_acts = 0,
                            !.run_steps = 0, !.run_episodes = 0,
                            !.run_resets = 0, !.last_act = NoTransition,
                            !.last_step = NoTransition, !.boundaries = <<>>]
    /\ UNCHANGED <<flags, agent, train_env, disk, not_driver_vars>>

\* for _ in range(num_eval_steps): act, env.step, the trackers, reset if done
Eval_step ==
    /\ main.pc = "eval"
    /\ eval_loop.i < flags.num_eval_steps
    /\ \E o \in EnvOutcomes(eval_env) :
           LET env == Env_step(eval_env)
           IN  /\ eval_env' = IF o.done THEN Env_reset(env) ELSE env
               /\ eval_loop' = [i |-> eval_loop.i + 1,
                                s_t |-> IF o.done THEN 0 ELSE env.steps,
                                trackers |->
                                    Trackers_step(eval_loop.trackers, o.reward, o.done)]
    /\ UNCHANGED <<flags, main, agent, train_env, loop, disk, hist, not_driver_vars>>

\* the for loop is over: return generate_statistics(trackers)
Eval_return ==
    /\ main.pc = "eval"
    /\ eval_loop.i >= flags.num_eval_steps
    /\ main' = [main EXCEPT !.pc = "log",
                            !.eval_stats = generate_statistics(eval_loop.trackers)]
    /\ eval_loop' = EvalIdle
    /\ hist' = [hist EXCEPT !.evals_done = @ + 1]
    /\ UNCHANGED <<flags, agent, train_env, eval_env, loop, disk, not_driver_vars>>

\* log_output; if writer: writer.write(...); train_stats and eval_stats are not
\* read after it
Main_log ==
    /\ main.pc = "log"
    /\ main' = [main EXCEPT !.pc = "checkpoint", !.train_stats = Trackers_init,
                            !.eval_stats = Trackers_init]
    /\ IF flags.results_csv_path # ""
       THEN /\ disk' = CsvFile_write(disk, [iteration |-> main.iteration])
            /\ hist' = [hist EXCEPT !.rows_written = @ + 1]
       ELSE UNCHANGED <<disk, hist>>
    /\ UNCHANGED <<flags, agent, train_env, eval_env, loop, eval_loop, not_driver_vars>>

\* if FLAGS.checkpoint_dir and os.path.exists(...): torch.save(...)
Main_checkpoint ==
    /\ main.pc = "checkpoint"
    /\ main' = [main EXCEPT !.pc = "for"]
    /\ disk' = IF main_creates_checkpoint(flags.checkpoint_dir, disk.dir_exists)
               THEN [disk EXCEPT !.checkpoints = @ \cup {main.iteration}]
               ELSE disk
    /\ UNCHANGED <<flags, agent, train_env, eval_env, loop, eval_loop, hist,
                   not_driver_vars>>

\* someone makes the directory FLAGS.checkpoint_dir while main runs
CreateDir ==
    /\ flags.checkpoint_dir # ""
    /\ ~disk.dir_exists
    /\ main.pc \notin {"done", "raised"}
    /\ disk' = [disk EXCEPT !.dir_exists = TRUE]
    /\ UNCHANGED <<flags, main, agent, train_env, eval_env, loop, eval_loop, hist,
                   not_driver_vars>>

\* the steps of the program itself
MainStep ==
    \/ Main_for
    \/ Train_reset
    \/ Train_return
    \/ Train_act
    \/ Train_step
    \/ Train_final_act
    \/ Eval_start
    \/ Eval_step
    \/ Eval_return
    \/ Main_log
    \/ Main_checkpoint

MainNext == MainStep \/ CreateDir

(***************************************************************************)
(* The specifications, one per component.                                  *)
(***************************************************************************)
TrackerIdle == make_default_trackers /\ timer = 0

\* log_dir is None: the list holds no tensorboard tracker
TbIdle == make_tensorboard_trackers

TrackerInit == make_default_trackers /\ TbIdle /\ CsvIdle /\ CoordsIdle /\ DriverIdle

TbInit ==
    make_default_trackers /\ make_tensorboard_trackers /\ CsvIdle /\ CoordsIdle /\ DriverIdle

SpecTensorboard == TbInit /\ [][TbNext]_vars

SpecTracker == TrackerInit /\ [][TrackerNext]_vars

CsvInit == CsvIdle /\ TrackerIdle /\ TbIdle /\ CoordsIdle /\ DriverIdle

SpecCsv == CsvInit /\ [][CsvNext]_vars

CoordsInit == CoordsConvertor_init /\ TrackerIdle /\ TbIdle /\ CsvIdle /\ DriverIdle

SpecCoords == CoordsInit /\ [][CoordsNext]_vars

MainInit == main_init /\ TrackerIdle /\ TbIdle /\ CsvIdle /\ CoordsIdle

SpecMain == MainInit /\ [][MainNext]_vars

\* the program is a single thread that runs on until main returns or raises
SpecMainFair == SpecMain /\ WF_vars(MainStep)

(***************************************************************************)
(* What the claims about the trackers are measured against: the history    *)
(* of step calls since the last reset, split into episodes.                *)
(***************************************************************************)
DoneSteps == {i \in 1..Len(calls) : calls[i].done}

\* the last done step before step i (0: the reset)
PrevDone(i) ==
    LET before == {j \in DoneSteps : j < i}
    IN  IF before = {} THEN 0 ELSE CHOOSE j \in before : \A k \in before : k <= j

RECURSIVE RewardSum(_, _)
\* the sum of the rewards of the steps from..to of the history
RewardSum(from, to) ==
    IF from > to THEN 0 ELSE calls[to].reward + RewardSum(from, to - 1)

\* the return of the episode completed by the done step i
EpisodeReturn(i) == RewardSum(PrevDone(i) + 1, i)

RECURSIVE TotalReturn(_)
TotalReturn(S) ==
    IF S = {} THEN 0
    ELSE LET i == CHOOSE x \in S : TRUE IN EpisodeReturn(i) + TotalReturn(S \ {i})

\* C1: after a reset and steps of which at least one was done, get() reports as
\* mean_episode_return the arithmetic mean of the returns of the completed
\* episodes (mean * number of episodes = sum of their returns); the rewards of
\* the episode in progress do not contribute.
C1_MeanOfCompletedEpisodes ==
    (stats.returned /\ DoneSteps # {}) =>
        LET m == stats.episode.mean_episode_return
        IN  /\ ~m.nan
            /\ m.den > 0
            /\ m.num * Cardinality(DoneSteps) = TotalReturn(DoneSteps) * m.den

\* two completed episodes of different return and an episode in progress
C1_Witness ==
    /\ stats.returned
    /\ Cardinality(DoneSteps) = 2
    /\ \E i, j \in DoneSteps : EpisodeReturn(i) # EpisodeReturn(j)
    /\ ~calls[Len(calls)].done
    /\ calls[Len(calls)].reward # 0

\* C2: with no done step since the reset, get() reports num_episodes 0 and as
\* mean_episode_return NaN when no step was taken, else the sum of all rewards
\* passed to step since the reset.
C2_ZeroEpisodesConvention ==
    (stats.returned /\ DoneSteps = {}) =>
        LET m == stats.episode.mean_episode_return
        IN  /\ stats.episode.num_episodes = 0
            /\ (calls = <<>>) => m.nan
            /\ (calls # <<>>) =>
                   (~m.nan /\ m.num = RewardSum(1, Len(calls)) * m.den)

C2_Witness ==
    /\ stats.returned
    /\ DoneSteps = {}
    /\ Len(calls) = 2
    /\ RewardSum(1, Len(calls)) = 1

C2_WitnessNaN ==
    stats.returned /\ calls = <<>> /\ stats.episode.mean_episode_return.nan

\* C3: current_episode_step is 0 after a done step, nonzero after a step that
\* was not done, and always the number of steps taken since the most recent
\* done step or reset.
C3_CurrentEpisodeStep ==
    /\ episode_tracker.current_episode_step = Len(calls) - PrevDone(Len(calls) + 1)
    /\ (calls # <<>> /\ calls[Len(calls)].done) =>
           episode_tracker.current_episode_step = 0
    /\ (calls # <<>> /\ ~calls[Len(calls)].done) =>
           episode_tracker.current_episode_step > 0

C3_Witness ==
    /\ Len(calls) = 3
    /\ calls[1].done
    /\ episode_tracker.current_episode_step = 2

\* C4: in both trackers every step call raises num_steps_since_reset by exactly
\* 1 whatever reward, done and info are, get() does not change it, and only
\* reset() lowers it, to 0.
C4_StepsSinceResetMonotonic ==
    [][/\ \A reward \in Rewards, done \in BOOLEAN, info \in Infos :
              Step(reward, done, info) =>
                  /\ episode_tracker'.num_steps_since_reset =
                         episode_tracker.num_steps_since_reset + 1
                  /\ step_rate_tracker'.num_steps_since_reset =
                         step_rate_tracker.num_steps_since_reset + 1
       /\ Get => /\ episode_tracker'.num_steps_since_reset =
                        episode_tracker.num_steps_since_reset
                 /\ step_rate_tracker'.num_steps_since_reset =
                        step_rate_tracker.num_steps_since_reset
       /\ (episode_tracker'.num_steps_since_reset <
               episode_tracker.num_steps_since_reset) =>
              (Reset /\ episode_tracker'.num_steps_since_reset = 0)
       /\ (step_rate_tracker'.num_steps_since_reset <
               step_rate_tracker.num_steps_since_reset) =>
              (Reset /\ step_rate_tracker'.num_steps_since_reset = 0)
      ]_vars

\* both counters at the bound, reached by steps alone, after a get
C4_Witness ==
    /\ stats.returned
    /\ episode_tracker.num_steps_since_reset = MaxSteps
    /\ step_rate_tracker.num_steps_since_reset = MaxSteps

(***************************************************************************)
(* What the claims about CsvWriter are measured against.                   *)
(***************************************************************************)
HeaderRows(rows) == {i \in 1..Len(rows) : rows[i].header}
DataRows(rows) == {i \in 1..Len(rows) : ~rows[i].header}

RECURSIVE DataCells(_)
\* the data rows of the file, in order
DataCells(rows) ==
    IF rows = <<>> THEN <<>>
    ELSE IF rows[1].header THEN DataCells(Tail(rows))
    ELSE <<rows[1].cells>> \o DataCells(Tail(rows))

IsPrefix(s, t) == Len(s) <= Len(t) /\ SubSeq(t, 1, Len(s)) = s

\* C5 as stated: once write was called, the file holds exactly one header row,
\* which comes first, and as many data rows as write calls were made.
C5_OneHeaderRowsEqualCalls ==
    (~writing.active /\ counts.completed >= 1) =>
        /\ Cardinality(HeaderRows(file)) = 1
        /\ Cardinality(DataRows(file)) = counts.completed
        /\ file[1].header

\* C5 as amended: every CsvWriter object writes exactly one header row, in the
\* first write call it completes, so the file holds one header row per
\* CsvWriter that completed a write call on it (exactly one for a file written
\* through a single CsvWriter); the number of data rows equals the number of
\* write calls that returned (a call that raises adds none); the first row is
\* a header, so a header precedes every data row.
C5_OneHeaderPerWriter ==
    ~writing.active =>
        /\ Cardinality(HeaderRows(file)) = counts.writers
        /\ Cardinality(DataRows(file)) = counts.returned
        /\ (file # <<>>) => file[1].header
        /\ (counts.writers = 1) => HeaderRows(file) = {1}

\* a write that returned, one that raised, a restart and a write of the new writer
C5_Witness ==
    /\ ~writing.active
    /\ counts.completed = 3
    /\ counts.returned = 2
    /\ counts.writers = 2
    /\ Cardinality(HeaderRows(file)) = 2

\* C6: the file is only appended to: every row of a write call that returned
\* is in the file after a crash at any point (the data rows of the file are the
\* rows of the calls that returned, in order), and a CsvWriter created after a
\* restart leaves the existing content in place.
C6_AppendOnly ==
    /\ [](acked = DataCells(file))
    /\ [][IsPrefix(file, file')]_vars

\* a crash cut a write call, and the writer of the next run appended its rows
C6_Witness ==
    /\ counts.cut
    /\ ~writing.active
    /\ Len(acked) = 2
    /\ Cardinality(HeaderRows(file)) = 2
    /\ ~file[Len(file)].header

\* C7: the field names are the keys the record of the first write call had
\* then, in every later write call.
C7_FieldNamesFixed ==
    writing.active => FieldNames(writer.fieldnames) = first_keys

(***************************************************************************)
(* What the claims about CoordsConvertor are measured against.             *)
(***************************************************************************)
\* the call returned a coordinate on the board, or None
DecodedOnBoard == ~raised /\ call_coord \in Coordinates(board_size)

\* C8: to_flat(from_flat(x)) == x for every x in 0..N*N, from_flat(to_flat(c))
\* == c for every coordinate c on the board or None; None <-> N*N, and every
\* coordinate on the board maps into 0..N*N-1.
C8_FlatRoundTrip ==
    /\ (fn = "from_flat") =>
           /\ to_flat(board_size, call_coord) = call_flat
           /\ call_coord \in Coordinates(board_size)
           /\ (call_coord = Pass) <=> (call_flat = board_size * board_size)
    /\ (fn = "to_flat") =>
           /\ from_flat(board_size, call_flat) = call_coord
           /\ (call_coord = Pass) <=> (call_flat = board_size * board_size)
           /\ (call_coord # Pass) => call_flat \in 0..(board_size * board_size - 1)

C8_Witness ==
    /\ fn = "from_flat"
    /\ board_size = 19
    /\ call_flat = 19 * 19
    /\ call_coord = Pass

C8_WitnessOnBoard ==
    /\ fn = "to_flat"
    /\ board_size = 9
    /\ call_coord = <<8, 7>>
    /\ call_flat = 79

\* C9 as stated: for every board size, decoding what to_sgf and to_gtp give for
\* a coordinate on the board or None gives the coordinate back, and encoding
\* what from_sgf and from_gtp give for a string of such a coordinate gives the
\* string back.
C9_EncodeDecodeInverses ==
    /\ (fn = "to_sgf") =>
           (~raised /\ from_sgf(board_size, call_text) = Returns(call_coord))
    /\ (fn = "to_gtp") =>
           (~raised /\ from_gtp(board_size, call_text) = Returns(call_coord))
    /\ (fn = "from_sgf" /\ DecodedOnBoard) =>
           to_sgf(board_size, call_coord) = Returns(call_text)
    /\ (fn = "from_gtp" /\ DecodedOnBoard) =>
           to_gtp(board_size, call_coord) = Returns(call_text)

\* the spelling to_gtp gives: 'pass', or a capital letter and a number that
\* does not start with 0
CanonicalGtp(s) ==
    \/ s = <<"p", "a", "s", "s">>
    \/ /\ Len(s) >= 2
       /\ \E i \in 1..Len(UpperCase) : s[1] = UpperCase[i]
       /\ \A i \in 2..Len(s) : \E d \in 1..Len(Digits) : s[i] = Digits[d]
       /\ s[2] # "0"

\* C9 as amended: decoding what to_sgf (to_gtp) gives for a coordinate gives
\* the coordinate back whenever its row and column are below 52 (its column
\* below 25), the numbers of letters of _SGF_COLUMNS (_GTP_COLUMNS), so for
\* every board size up to 52 (25); beyond, to_sgf (to_gtp) raises IndexError.
\* Encoding what from_sgf gives for a string of a coordinate on the board or
\* of pass gives the string back except for 'tt' on boards up to 19, which
\* is read as pass and encoded as ''; encoding what from_gtp gives gives the
\* string back exactly for the strings spelt as to_gtp spells them (from_gtp
\* also reads lower-case letters, 'PASS' in any case and numbers with leading
\* zeros).
C9_InversesOnCanonical ==
    /\ (fn = "to_sgf") =>
           IF call_coord = Pass \/ (call_coord[1] < Len(SGF_COLUMNS) /\ call_coord[2] < Len(SGF_COLUMNS))
           THEN ~raised /\ from_sgf(board_size, call_text) = Returns(call_coord)
           ELSE raised
    /\ (fn = "to_gtp") =>
           IF call_coord = Pass \/ call_coord[2] < Len(GTP_COLUMNS)
           THEN ~raised /\ from_gtp(board_size, call_text) = Returns(call_coord)
           ELSE raised
    /\ (fn \in {"to_sgf", "to_gtp"} /\ board_size <= Len(GTP_COLUMNS)) => ~raised
    /\ (fn = "to_sgf" /\ board_size <= Len(SGF_COLUMNS)) => ~raised
    /\ (fn = "from_sgf" /\ DecodedOnBoard) =>
           ((to_sgf(board_size, call_coord) = Returns(call_text))
               <=> ~(board_size <= 19 /\ call_text = <<"t", "t">>))
    /\ (fn = "from_gtp" /\ DecodedOnBoard) =>
           ((to_gtp(board_size, call_coord) = Returns(call_text)) <=> CanonicalGtp(call_text))

\* 't19' on a 19 x 19 board is read as (0, 18), whose spelling is 'T19'
C9_Witness ==
    /\ fn = "from_gtp"
    /\ board_size = 19
    /\ call_text = <<"t", "1", "9">>
    /\ ~raised
    /\ call_coord = <<0, 18>>

C9_WitnessEncode ==
    /\ fn = "to_gtp"
    /\ board_size = 25
    /\ call_coord = <<3, 24>>
    /\ ~raised
    /\ call_text = <<"Z", "2", "2">>

\* the capital letters without I
LettersSkippingI == SelectSeq(UpperCase, LAMBDA c : c # "I")

\* C10: to_sgf((row, col)) is the col-th then the row-th letter of a..z, A..Z;
\* to_gtp((row, col)) is the col-th capital letter, I skipped, followed by the
\* number N - row in 1..N, and never starts with I; for N = 19, (0, 0) is 0,
\* 'aa', 'A19', (0, 18) is 18, 'sa', 'T19', and None is 361, '', 'pass'.
C10_DocumentedNotations ==
    /\ (fn = "to_sgf" /\ call_coord # Pass /\ call_coord[1] < 52 /\ call_coord[2] < 52) =>
           /\ ~raised
           /\ call_text = <<(LowerCase \o UpperCase)[call_coord[2] + 1],
                       (LowerCase \o UpperCase)[call_coord[1] + 1]>>
    /\ (fn = "to_gtp" /\ call_coord # Pass /\ call_coord[2] < Len(LettersSkippingI)) =>
           /\ ~raised
           /\ call_text = <<LettersSkippingI[call_coord[2] + 1]>> \o PyStr(board_size - call_coord[1])
           /\ board_size - call_coord[1] \in 1..board_size
    /\ (fn = "to_gtp" /\ ~raised) => call_text[1] # "I"
    /\ (board_size = 19 /\ fn = "to_flat") =>
           /\ (call_coord = <<0, 0>>) => call_flat = 0
           /\ (call_coord = <<0, 18>>) => call_flat = 18
           /\ (call_coord = Pass) => call_flat = 361
    /\ (board_size = 19 /\ fn = "to_sgf") =>
           /\ (call_coord = <<0, 0>>) => (~raised /\ call_text = <<"a", "a">>)
           /\ (call_coord = <<0, 18>>) => (~raised /\ call_text = <<"s", "a">>)
           /\ (call_coord = Pass) => (~raised /\ call_text = <<>>)
    /\ (board_size = 19 /\ fn = "to_gtp") =>
           /\ (call_coord = <<0, 0>>) => (~raised /\ call_text = <<"A", "1", "9">>)
           /\ (call_coord = <<0, 18>>) => (~raised /\ call_text = <<"T", "1", "9">>)
           /\ (call_coord = Pass) => (~raised /\ call_text = <<"p", "a", "s", "s">>)

C10_Witness ==
    /\ fn = "to_gtp"
    /\ board_size = 19
    /\ call_coord = <<0, 18>>
    /\ call_text = <<"T", "1", "9">>

C10_WitnessSgf ==
    /\ fn = "to_sgf"
    /\ board_size = 52
    /\ call_coord = <<51, 26>>
    /\ call_text = <<"A", "Z">>

(***************************************************************************)
(* What the claims about reset and the tensorboard trackers are measured   *)
(* against: the step calls since the last reset, replayed on an            *)
(* EpisodeTracker that was just reset, and the counts of step calls.       *)
(***************************************************************************)
JustReset ==
    [num_steps_since_reset |-> 0,
     episode_returns |-> <<>>,
     episode_steps |-> <<>>,
     episode_visited_rooms |-> <<>>,
     current_episode_step |-> 0,
     current_episode_rewards |-> <<>>]

RECURSIVE ReplaySteps(_)
\* the EpisodeTracker after the first n step calls of the history
ReplaySteps(n) ==
    IF n = 0 THEN JustReset
    ELSE EpisodeTracker_step(ReplaySteps(n - 1), calls[n].reward, calls[n].done,
                             calls[n].info)

\* C12: reset() clears all gathered statistics: whatever steps were taken before
\* it, a get() right after it returns num_episodes 0, current_episode_step 0,
\* num_steps_since_reset 0, mean_episode_visited_rooms 0 and mean_episode_return
\* NaN, and the tracker, hence every later get(), is determined by the step
\* calls made after that reset alone.
C12_ResetClearsStatistics ==
    /\ episode_tracker = ReplaySteps(Len(calls))
    /\ (stats.returned /\ calls = <<>>) =>
           stats.episode = [mean_episode_return |-> NaN,
                            mean_episode_visited_rooms |-> Num(0),
                            num_episodes |-> 0,
                            current_episode_step |-> 0,
                            num_steps_since_reset |-> 0]
    /\ stats.returned => stats.episode = EpisodeTracker_get(ReplaySteps(Len(calls)))

\* get() right after a reset that followed completed episodes
C12_Witness ==
    /\ stats.returned
    /\ calls = <<>>
    /\ ~tb_counts.set
    /\ tb_episode_tracker.total_episodes = 2

\* get() after a reset that followed an episode, and one more episode after it
C12_WitnessLater ==
    /\ stats.returned
    /\ ~tb_counts.set
    /\ tb_episode_tracker.total_episodes = 2
    /\ Len(calls) = 1
    /\ stats.episode.num_episodes = 1

\* C13: the totals of the tensorboard trackers do not reset: _total_steps is the
\* value given to the last set_tracker_steps (0 when there was none) plus the
\* number of step calls on the tracker since, _total_episodes likewise with the
\* done steps; reset_trackers leaves them as they are, and set_tracker_steps
\* changes nothing on the plain EpisodeTracker and StepRateTracker.
C13_TotalsDoNotReset ==
    /\ [](/\ tb_episode_tracker.total_steps =
                 tb_counts.set_steps + tb_counts.episode_steps
          /\ tb_episode_tracker.total_episodes =
                 tb_counts.set_episodes + tb_counts.episode_dones
          /\ tb_step_rate_tracker.total_steps =
                 tb_counts.set_steps + tb_counts.rate_steps)
    /\ [][/\ TbReset =>
                 /\ tb_episode_tracker'.total_steps = tb_episode_tracker.total_steps
                 /\ tb_episode_tracker'.total_episodes =
                        tb_episode_tracker.total_episodes
                 /\ tb_step_rate_tracker'.total_steps =
                        tb_step_rate_tracker.total_steps
          /\ SetTrackerStepsAny =>
                 /\ episode_tracker' = episode_tracker
                 /\ step_rate_tracker' = step_rate_tracker
         ]_vars

\* after set_tracker_steps(5, 3), a completed episode of two steps and a reset
C13_Witness ==
    /\ calls = <<>>
    /\ tb_counts.set
    /\ tb_episode_tracker.total_steps = 7
    /\ tb_episode_tracker.total_episodes = 4
    /\ tb_step_rate_tracker.total_steps = 7
    /\ tb_episode_tracker.base.num_steps_since_reset = 0

\* an IndexError of the TensorboardEpisodeTracker left the step rate tracker behind
C13_WitnessRaised ==
    /\ tb_writer.raised
    /\ tb_step_rate_tracker.total_steps < tb_episode_tracker.total_steps

(***************************************************************************)
(* Step accounting of the EpisodeTracker.                                  *)
(***************************************************************************)
\* C18: after reset() and any step and get calls, episode_returns and
\* episode_steps have the same length, the number of done steps since the reset
\* (num_episodes); every recorded episode step count is >= 1; and the recorded
\* step counts plus current_episode_step add up to num_steps_since_reset.
C18_StepAccounting ==
    /\ Len(episode_tracker.episode_returns) = Len(episode_tracker.episode_steps)
    /\ Len(episode_tracker.episode_returns) = Cardinality(DoneSteps)
    /\ stats.returned => stats.episode.num_episodes = Cardinality(DoneSteps)
    /\ \A i \in 1..Len(episode_tracker.episode_steps) :
           episode_tracker.episode_steps[i] >= 1
    /\ SumSeq(episode_tracker.episode_steps) + episode_tracker.current_episode_step
           = episode_tracker.num_steps_since_reset
    /\ episode_tracker.num_steps_since_reset = Len(calls)

\* an episode of one step, an episode of two steps, then get
C18_Witness ==
    /\ stats.returned
    /\ episode_tracker.episode_steps = <<1, 2>>
    /\ episode_tracker.current_episode_step = 0

(***************************************************************************)
(* What the claims about main, run_train_loop and the agent are measured   *)
(* against: the history of the calls made.                                 *)
(***************************************************************************)
\* C11: the iterations run in increasing order, each in the sequence training
\* loop, evaluation loop, CSV row, checkpoint: an evaluation starts only after
\* the training of its iteration returned, a row is written only after the
\* evaluation returned, a checkpoint is created only after the row; the file
\* gets exactly one row per iteration when results_csv_path is set (none when
\* not), and a checkpoint exists only when checkpoint_dir is set and exists.
C11_IterationSequence ==
    LET csv == flags.results_csv_path # ""
        ended == IF main.pc \in {"for", "done"} THEN main.iteration
                 ELSE main.iteration - 1
    IN  /\ main.iteration \in 0..flags.num_iterations
        /\ hist.trains_started = main.iteration
        /\ hist.trains_done \in {main.iteration - 1, main.iteration}
        /\ hist.evals_started <= hist.trains_done
        /\ hist.evals_done <= hist.evals_started
        /\ hist.rows_written <= hist.evals_done
        /\ Len(disk.rows) = hist.rows_written
        /\ \A k \in 1..Len(disk.rows) : disk.rows[k].iteration = k
        /\ csv => Len(disk.rows) \in {ended, main.iteration}
        /\ (csv /\ main.pc \in {"checkpoint", "for", "done"}) =>
               Len(disk.rows) = main.iteration
        /\ ~csv => (disk.rows = <<>> /\ ~disk.header)
        /\ (main.pc = "done") =>
               /\ main.iteration = flags.num_iterations
               /\ hist.evals_done = flags.num_iterations
               /\ csv => Len(disk.rows) = flags.num_iterations
        /\ \A i \in disk.checkpoints :
               /\ i \in 1..ended
               /\ i <= hist.evals_done
               /\ csv => i <= Len(disk.rows)
        /\ (disk.checkpoints # {}) => (flags.checkpoint_dir # "" /\ disk.dir_exists)

\* two iterations with training and evaluation steps; the directory was made
\* after the first: two rows, one checkpoint
C11_Witness ==
    /\ main.pc = "done"
    /\ flags.num_iterations = 2
    /\ Len(disk.rows) = 2
    /\ disk.checkpoints = {2}
    /\ train_env.steps > 0
    /\ eval_env.steps > 0

\* C14: the agent updates the parameters every sequence_length calls of act and
\* then empties the buffer: after n calls of act since construction update_t =
\* n div sequence_length, len(sequence) = n mod sequence_length, which is less
\* than sequence_length, and step_t = n - 1.
C14_UpdateEverySequenceLength ==
    /\ agent.update_t = hist.acts \div agent.sequence_length
    /\ Len(agent.sequence) = hist.acts % agent.sequence_length
    /\ Len(agent.sequence) < agent.sequence_length
    /\ agent.step_t = hist.acts - 1

\* C15: a call of run_train_loop with num_train_steps >= 0 that returned made
\* num_train_steps calls of env.step and reports num_steps = num_train_steps.
C15_RunsNumTrainSteps ==
    (loop.pc = "returned" /\ flags.num_train_steps >= 0) =>
        /\ hist.run_steps = flags.num_train_steps
        /\ main.train_stats.num_steps = flags.num_train_steps

\* C16: in run_train_loop the first agent.act of every episode gets the
\* observation of env.reset, reward 0 and done False; after a step that returned
\* done the agent is given that step's observation and reward with done True,
\* exactly once, before the next env.reset (or the return); so at every episode
\* boundary the calls of agent.act are the steps plus the completed episodes.
C16_FinalTransitionBeforeReset ==
    /\ (loop.pc = "step" /\ train_env.steps = 0) => hist.last_act = NoTransition
    /\ (loop.pc \in {"while", "returned"} /\ hist.run_steps > 0) =>
           /\ hist.last_step.done
           /\ hist.last_act = hist.last_step
    /\ (loop.pc \in {"while", "returned"}) =>
           /\ hist.run_acts = hist.run_steps + hist.run_episodes
           /\ hist.run_resets = hist.run_episodes
    /\ (loop.pc = "act") =>
           /\ hist.run_acts = hist.run_steps + hist.run_episodes
           /\ hist.run_resets = hist.run_episodes + 1
           /\ ~loop.done
    /\ (loop.pc = "step") =>
           /\ hist.run_acts = hist.run_steps + hist.run_episodes + 1
           /\ hist.run_resets = hist.run_episodes + 1
    /\ (loop.pc = "final") =>
           /\ hist.run_acts = hist.run_steps + hist.run_episodes - 1
           /\ hist.run_resets = hist.run_episodes
           /\ hist.last_step.done
           /\ ~hist.last_act.done

\* an episode of one step and an episode of two steps: five calls of agent.act
C16_Witness ==
    /\ loop.pc = "returned"
    /\ hist.run_episodes = 2
    /\ hist.run_steps = 3
    /\ hist.run_acts = 5
    /\ hist.last_act = Transition(2, 1, TRUE)

C17_WitnessNoSteps ==
    /\ loop.pc = "returned"
    /\ flags.num_train_steps <= 0
    /\ hist.trains_done = 2

====
